---- MODULE Spec2Model ----
(***************************************************************************)
(* Asynchronous PDF translation jobs of the Flask service (src/main.py):   *)
(* the job table `tasks`, the submission endpoint, the background worker   *)
(* run_translation_task and the status endpoint get_status, with the       *)
(* translator's model cache (src/translate.py).                            *)
(*                                                                         *)
(* Every Python thread is a process with a program counter named after the *)
(* source line it is about to execute.  Steps that touch only thread-local *)
(* data are merged into the neighbouring step that touches shared data     *)
(* (tasks, the temporary directory, translator.models).                    *)
(***************************************************************************)
EXTENDS Integers, Sequences, FiniteSets, TLC

\* ---------------------------------------------------------------- bounds
MaxJobs == 2        \* number of POST /translate/pdf requests in a run
MaxLines == 1       \* longest text unit the extractor returns

\* ------------------------------------------------------- Python values
\* Optional values: None is the empty tuple, a present value v is <<v>>.
None == <<>>
Some(v) == <<v>>

\* dict.get(key): the value under key, None when the key is missing.
DictGet(d, k) == IF k \in DOMAIN d THEN Some(d[k]) ELSE None

\* d[key] = value on a dict d (adds the key or overwrites it).
DictSet(d, k, v) == [x \in DOMAIN d \cup {k} |-> IF x = k THEN v ELSE d[x]]

EmptyDict == [x \in {} |-> None]

\* ------------------------------------------------------------- inputs
Slots == 1..MaxJobs             \* the requests, in order of arrival
TaskIds == 1..MaxJobs           \* values uuid.uuid4() can return
TempPaths == 1..MaxJobs         \* names NamedTemporaryFile can pick

\* A Python str is the sequence of its characters.
Whitespace == {" "}
Blank == <<" ">>                            \* a whitespace-only line
HiThere == <<"H", "i", " ", "t", "h", "e", "r", "e">>
Lines == {Blank, HiThere}

RECURSIVE SeqsUpTo(_, _)
SeqsUpTo(S, n) ==
    IF n = 0 THEN {<<>>}
    ELSE LET shorter == SeqsUpTo(S, n - 1)
         IN  shorter \cup {Append(s, x) : s \in {t \in shorter : Len(t) = n - 1}, x \in S}

\* What extract_pdf_lines can return; <<>> also stands for an extraction
\* error, which the function turns into [].
TextUnits == SeqsUpTo(Lines, MaxLines)

\* request.form.get('direction'): "" is an absent (or empty) direction.
Directions == {"", "en2ar", "fr2ar"}

\* request.files['file'].filename; "" is an unnamed file, NoFile a request
\* without a file part.
NoFile == "<no file part>"
Filenames == {NoFile, "", "doc.pdf"}

\* ------------------------------------------------------------ state
VARIABLES
    tasks,              \* main.py:16   task id -> dict
    fs,                 \* temporary files that exist
    models,             \* translate.py:22  keys of translator.models
    rpc,                \* slot -> position of the submission handler
    filename,           \* slot -> file.filename
    task_id,            \* slot -> task_id of the handler and its worker
    pdf_path,           \* slot -> tmp_pdf_path / pdf_path
    direction,          \* slot -> direction (handed to the worker)
    wpc,                \* slot -> position of the worker thread
    original_lines,     \* slot -> worker's original_lines
    translated_lines,   \* slot -> worker's translated_lines (so far)
    exc,                \* slot -> exception raised in the worker's try block
    engine_calls,       \* slot -> calls of translator.translate_text
    output_written,     \* slot -> the output artifact was written
    output_files,       \* output path -> text written to that file
    removals,           \* slot -> os.remove(pdf_path) calls of the worker
    qpc,                \* position of the status handler
    q_task_id,          \* task_id of the status request
    response,           \* response dict the status handler builds
    call,               \* a call made on the request's own thread: its arguments
    cpc,                \* position of that call
    acc,                \* the list that call is building
    ret,                \* what that call has returned or yielded
    log                 \* the engine calls that call has made, in order

vars == <<tasks, fs, models, rpc, filename, task_id, pdf_path, direction, wpc,
          original_lines, translated_lines, exc, engine_calls, output_written, output_files,
          removals, qpc, q_task_id, response, call, cpc, acc, ret, log>>

svars == <<rpc, filename, task_id, pdf_path, direction>>
wvars == <<wpc, original_lines, translated_lines, exc, engine_calls,
           output_written, output_files, removals>>
qvars == <<qpc, q_task_id, response>>
fvars == <<call, cpc, acc, ret, log>>

\* The job table, the temporary directory and the translator after start-up.
JobsInit ==
    /\ tasks = EmptyDict
    /\ fs = {}
    /\ models = {}
    /\ rpc = [j \in Slots |-> "idle"]
    /\ filename = [j \in Slots |-> NoFile]
    /\ task_id = [j \in Slots |-> 0]
    /\ pdf_path = [j \in Slots |-> 0]
    /\ direction = [j \in Slots |-> ""]
    /\ wpc = [j \in Slots |-> "none"]
    /\ original_lines = [j \in Slots |-> <<>>]
    /\ translated_lines = [j \in Slots |-> <<>>]
    /\ exc = [j \in Slots |-> None]
    /\ engine_calls = [j \in Slots |-> 0]
    /\ output_written = [j \in Slots |-> FALSE]
    /\ output_files = EmptyDict
    /\ removals = [j \in Slots |-> 0]
    /\ qpc = "idle"
    /\ q_task_id = 0
    /\ response = EmptyDict

\* No call is in progress on a request's own thread.
NoCall ==
    /\ call = None
    /\ cpc = "none"
    /\ acc = <<>>
    /\ ret = None
    /\ log = <<>>

Init == JobsInit /\ NoCall

\* ------------------------------------------------------ str helpers
\* str.strip(): without leading and trailing whitespace.
RECURSIVE LStrip(_)
LStrip(s) == IF s # <<>> /\ Head(s) \in Whitespace THEN LStrip(Tail(s)) ELSE s

RECURSIVE RStrip(_)
RStrip(s) ==
    IF s # <<>> /\ s[Len(s)] \in Whitespace THEN RStrip(SubSeq(s, 1, Len(s) - 1)) ELSE s

Strip(s) == RStrip(LStrip(s))

\* len(str.split()): the number of maximal runs of non-whitespace characters.
WordCount(s) ==
    Cardinality({i \in 1..Len(s) :
                    /\ s[i] \notin Whitespace
                    /\ (i = 1 \/ s[i - 1] \in Whitespace)})

RECURSIVE count_words(_)
count_words(lines) ==
    IF lines = <<>> THEN 0
    ELSE (IF Strip(Head(lines)) # <<>> THEN WordCount(Head(lines)) ELSE 0)
         + count_words(Tail(lines))

\* ------------------------------------------------------ translator
SupportedDirections == {"en2ar", "ar2en"}       \* keys of model_mapping

ArabicChars == {"ARABIC LETTER MEEM"}

\* A faulty variant of detect_language: `>= 0.3` in place of `> 0.3`.
detect_language_at_least(text) ==
    LET arabic_chars == Cardinality({i \in 1..Len(text) : text[i] \in ArabicChars})
        total_chars == Cardinality({i \in 1..Len(text) : text[i] \notin Whitespace})
    IN  IF total_chars = 0 THEN "en"
        ELSE IF 10 * arabic_chars >= 3 * total_chars THEN "ar" ELSE "en"

\* OfflineTranslator.detect_language
detect_language(text) ==
    LET arabic_chars == Cardinality({i \in 1..Len(text) : text[i] \in ArabicChars})
        total_chars == Cardinality({i \in 1..Len(text) : text[i] \notin Whitespace})
    IN  IF total_chars = 0 THEN "en"
        ELSE IF 10 * arabic_chars > 3 * total_chars THEN "ar" ELSE "en"

\* The direction translate_text works with (translate.py:119-122).
ResolveDirection(text, dir) ==
    IF dir = "" THEN (IF detect_language(text) = "ar" THEN "ar2en" ELSE "en2ar")
    ELSE dir

Terminators == {".", "!", "?"}

\* re.split(r'[.!?]+', text): the pieces between the runs of terminators, the
\* empty pieces at both ends included.
RECURSIVE SplitRec(_, _, _)
SplitRec(rest, piece, in_run) ==
    IF rest = <<>> THEN <<piece>>
    ELSE IF Head(rest) \in Terminators
         THEN IF in_run THEN SplitRec(Tail(rest), piece, TRUE)
              ELSE <<piece>> \o SplitRec(Tail(rest), <<>>, TRUE)
         ELSE SplitRec(Tail(rest), Append(piece, Head(rest)), FALSE)

SplitSentences(text) == SplitRec(text, <<>>, FALSE)

\* A faulty variant of ChunkLoop: the chunk still open when the sentences run
\* out is not added (translate.py:95-96 left out).
RECURSIVE ChunkLoopDropsLast(_, _, _, _)
ChunkLoopDropsLast(sentences, chunks, current_chunk, max_length) ==
    IF sentences = <<>>
    THEN chunks
    ELSE LET sentence == Strip(Head(sentences))
             rest == Tail(sentences)
         IN  IF sentence = <<>>
             THEN ChunkLoopDropsLast(rest, chunks, current_chunk, max_length)
             ELSE IF Len(current_chunk) + Len(sentence) > max_length
                     /\ current_chunk # <<>>
             THEN ChunkLoopDropsLast(rest, Append(chunks, Strip(current_chunk)),
                                     sentence, max_length)
             ELSE IF current_chunk # <<>>
             THEN ChunkLoopDropsLast(rest, chunks,
                                     current_chunk \o <<".", " ">> \o sentence, max_length)
             ELSE ChunkLoopDropsLast(rest, chunks, sentence, max_length)

\* The loop of chunk_text (translate.py:79-92) over the sentences left, with
\* the chunks closed so far and current_chunk; then translate.py:95-96.
RECURSIVE ChunkLoop(_, _, _, _)
ChunkLoop(sentences, chunks, current_chunk, max_length) ==
    IF sentences = <<>>
    THEN IF current_chunk # <<>> THEN Append(chunks, Strip(current_chunk)) ELSE chunks
    ELSE LET sentence == Strip(Head(sentences))
             rest == Tail(sentences)
         IN  IF sentence = <<>>
             THEN ChunkLoop(rest, chunks, current_chunk, max_length)
             ELSE IF Len(current_chunk) + Len(sentence) > max_length
                     /\ current_chunk # <<>>
             THEN ChunkLoop(rest, Append(chunks, Strip(current_chunk)), sentence,
                            max_length)
             ELSE IF current_chunk # <<>>
             THEN ChunkLoop(rest, chunks, current_chunk \o <<".", " ">> \o sentence,
                            max_length)
             ELSE ChunkLoop(rest, chunks, sentence, max_length)

\* A faulty variant of chunk_text: `return chunks`, without `else [text]`.
chunk_text_no_fallback(text, max_length) ==
    ChunkLoop(SplitSentences(text), <<>>, <<>>, max_length)

\* A faulty variant of chunk_text: every sentence is a chunk of its own.
chunk_text_per_sentence(text, max_length) ==
    LET sentences == SelectSeq([i \in 1..Len(SplitSentences(text)) |->
                                   Strip(SplitSentences(text)[i])],
                               LAMBDA x : x # <<>>)
    IN  IF sentences # <<>> THEN sentences ELSE <<text>>

\* OfflineTranslator.chunk_text
chunk_text(text, max_length) ==
    LET chunks == ChunkLoop(SplitSentences(text), <<>>, <<>>, max_length)
    IN  IF chunks # <<>> THEN chunks ELSE <<text>>

DefaultMaxLength == 512

\* The translation engine (tokenizer, model.generate, decode) is a black box
\* translate(text, direction) -> text; the stub marks the text with the
\* direction it was translated with.
Engine(text, dir) == <<dir, ":">> \o text

\* OfflineTranslator.translate_chunk, when the engine returns
translate_chunk(text, dir) == IF Strip(text) = <<>> THEN <<>> ELSE Engine(text, dir)

\* " ".join(translations)
RECURSIVE JoinSpace(_)
JoinSpace(strs) ==
    IF strs = <<>> THEN <<>>
    ELSE IF Len(strs) = 1 THEN strs[1]
    ELSE strs[1] \o <<" ">> \o JoinSpace(Tail(strs))

\* OfflineTranslator.translate_text, when the model is loaded and the engine
\* returns for every chunk
translate_text(text, direction_) ==
    LET dir == ResolveDirection(text, direction_)
        chunks == chunk_text(text, DefaultMaxLength)
        nonblank == SelectSeq(chunks, LAMBDA c : Strip(c) # <<>>)
        translations == [i \in 1..Len(nonblank) |-> translate_chunk(nonblank[i], dir)]
    IN  JoinSpace(translations)

\* ------------------------------------------------- POST /translate/pdf
\* Slots are taken in order of arrival.
NextSlot(j) == rpc[j] = "idle" /\ \A k \in Slots : k < j => rpc[k] # "idle"

GeneratedIds == {task_id[k] : k \in {s \in Slots : task_id[s] # 0}}

\* A faulty variant of uuid4: the same id is returned again and again.
uuid4_repeated == CHOOSE id \in TaskIds : \A other \in TaskIds : id <= other

\* uuid.uuid4() returns an id that was never returned before; which one is
\* immaterial, the model takes the least.
uuid4 == CHOOSE id \in TaskIds \ GeneratedIds :
            \A other \in TaskIds \ GeneratedIds : id <= other

\* NamedTemporaryFile(delete=False) creates a file under a name that no
\* existing file has (the name of a deleted file can come again); which one
\* is immaterial, the model takes the least.
NamedTemporaryFile == CHOOSE p \in TempPaths \ fs :
                         \A other \in TempPaths \ fs : p <= other

\* main.py:120-124: a request without a file part or with an unnamed file is
\* answered 400 before anything is done.
SubmitReject(j) ==
    /\ NextSlot(j)
    /\ \E f \in {NoFile, ""} :
        /\ filename' = [filename EXCEPT ![j] = f]
        /\ rpc' = [rpc EXCEPT ![j] = "rejected"]
    /\ UNCHANGED <<tasks, fs, models, task_id, pdf_path, direction, wvars, qvars, fvars>>

\* main.py:120-133: the upload is saved to a new temporary file, and a task id
\* is generated.
SubmitSave(j) ==
    /\ NextSlot(j)
    /\ \E f \in Filenames \ {NoFile, ""}, d \in Directions :
        /\ filename' = [filename EXCEPT ![j] = f]
        /\ fs' = fs \cup {NamedTemporaryFile}
        /\ pdf_path' = [pdf_path EXCEPT ![j] = NamedTemporaryFile]
        /\ task_id' = [task_id EXCEPT ![j] = uuid4]
        /\ direction' = [direction EXCEPT ![j] = d]
        /\ rpc' = [rpc EXCEPT ![j] = "l136"]
    /\ UNCHANGED <<tasks, models, wvars, qvars, fvars>>

\* A faulty variant of SubmitInsert: the job is inserted as already processing.
SubmitInsertProcessing(j) ==
    /\ rpc[j] = "l136"
    /\ tasks' = DictSet(tasks, task_id[j], [status |-> "processing"])
    /\ rpc' = [rpc EXCEPT ![j] = "l139"]
    /\ UNCHANGED <<fs, models, filename, task_id, pdf_path, direction, wvars, qvars, fvars>>

\* main.py:136  tasks[task_id] = {'status': 'pending'}
SubmitInsert(j) ==
    /\ rpc[j] = "l136"
    /\ tasks' = DictSet(tasks, task_id[j], [status |-> "pending"])
    /\ rpc' = [rpc EXCEPT ![j] = "l139"]
    /\ UNCHANGED <<fs, models, filename, task_id, pdf_path, direction, wvars, qvars, fvars>>

\* main.py:139-143  threading.Thread(target=run_translation_task, ...).start()
SubmitStart(j) ==
    /\ rpc[j] = "l139"
    /\ wpc' = [wpc EXCEPT ![j] = "l58"]
    /\ rpc' = [rpc EXCEPT ![j] = "l146"]
    /\ UNCHANGED <<tasks, fs, models, filename, task_id, pdf_path, direction,
                   original_lines, translated_lines, exc, engine_calls,
                   output_written, output_files, removals, qvars, fvars>>

\* main.py:146-150  the 202 response with the task id.
SubmitReturn(j) ==
    /\ rpc[j] = "l146"
    /\ rpc' = [rpc EXCEPT ![j] = "returned"]
    /\ UNCHANGED <<tasks, fs, models, filename, task_id, pdf_path, direction,
                   wvars, qvars, fvars>>

\* --------------------------------------------- run_translation_task
Task(j) == tasks[task_id[j]]

\* tasks[task_id][key] = value
SetTaskKey(j, key, value) ==
    tasks' = [tasks EXCEPT ![task_id[j]] = DictSet(@, key, value)]

Exception(type, message) == Some([type |-> type, message |-> message])

\* raise inside the try block of run_translation_task: an Exception goes to
\* the except clause (main.py:87), anything else (SystemExit) passes it and
\* goes to the finally clause (main.py:90).
Raise(j, e) ==
    /\ exc' = [exc EXCEPT ![j] = e]
    /\ wpc' = [wpc EXCEPT ![j] = IF e[1].type = "SystemExit" THEN "l92" ELSE "l88"]

\* The thread of run_translation_task ends: its locals are gone.
ThreadEnd(j) ==
    /\ wpc' = [wpc EXCEPT ![j] = "done"]
    /\ direction' = [direction EXCEPT ![j] = ""]
    /\ original_lines' = [original_lines EXCEPT ![j] = <<>>]
    /\ translated_lines' = [translated_lines EXCEPT ![j] = <<>>]

\* main.py:58  tasks[task_id]['status'] = 'processing'
WorkerStart(j) ==
    /\ wpc[j] = "l58"
    /\ SetTaskKey(j, "status", "processing")
    /\ wpc' = [wpc EXCEPT ![j] = "l61"]
    /\ UNCHANGED <<fs, models, svars, original_lines, translated_lines, exc,
                   engine_calls, output_written, output_files, removals, qvars, fvars>>

\* A faulty variant of WorkerExtract: the check `if not original_lines` is missing, so
\* an empty text unit is translated (no lines) and written.
WorkerExtractUnchecked(j) ==
    /\ wpc[j] = "l61"
    /\ \E lines \in TextUnits :
        /\ original_lines' = [original_lines EXCEPT ![j] = lines]
        /\ wpc' = [wpc EXCEPT ![j] = IF lines = <<>> THEN "l71" ELSE "l66"]
    /\ UNCHANGED <<tasks, fs, models, svars, translated_lines, exc, engine_calls,
                   output_written, output_files, removals, qvars, fvars>>

\* main.py:61-63 with extract_pdf_lines (main.py:30-42): the extractor returns
\* the lines of the document, or [] when it fails or finds no text.
WorkerExtract(j) ==
    /\ wpc[j] = "l61"
    /\ \E lines \in TextUnits :
        /\ original_lines' = [original_lines EXCEPT ![j] = lines]
        /\ IF lines = <<>>
           THEN Raise(j, Exception("ValueError", "Could not extract text from PDF."))
           ELSE /\ wpc' = [wpc EXCEPT ![j] = "l66"]
                /\ UNCHANGED exc
    /\ UNCHANGED <<tasks, fs, models, svars, translated_lines, engine_calls,
                   output_written, output_files, removals, qvars, fvars>>

\* One element of the list comprehension of translate_lines (main.py:44-48),
\* called at main.py:66.  A blank line gives "" without a call; any other line
\* is a call of translate_text (translate.py:117-139) with load_model
\* (translate.py:27-59) and the engine.
WorkerTranslateLine(j) ==
    /\ wpc[j] = "l66"
    /\ LET line == original_lines[j][Len(translated_lines[j]) + 1]
           dir == ResolveDirection(line, direction[j])
           Done(out) ==
               /\ translated_lines' = [translated_lines EXCEPT ![j] = Append(@, out)]
               /\ wpc' = [wpc EXCEPT ![j] =
                            IF Len(translated_lines[j]) + 1 = Len(original_lines[j])
                            THEN "l71" ELSE "l66"]
               /\ UNCHANGED exc
           \* an exception leaves the comprehension: its list is dropped
           Discard == translated_lines' = [translated_lines EXCEPT ![j] = <<>>]
           \* every translate_chunk returns, or the engine raises
           Translate ==
               \/ Done(translate_text(line, direction[j]))
               \/ /\ Raise(j, Exception("RuntimeError", "engine failure"))
                  /\ Discard
       IN  IF Strip(line) = <<>>
           THEN /\ Done(<<>>)
                /\ UNCHANGED <<models, engine_calls>>
           ELSE /\ engine_calls' = [engine_calls EXCEPT ![j] = @ + 1]
                /\ IF dir \in models
                   THEN \* translate.py:29-30: the model is cached
                        /\ Translate
                        /\ UNCHANGED models
                   ELSE IF dir \notin SupportedDirections
                   THEN \* translate.py:38-40
                        /\ Raise(j, Exception("ValueError",
                                   <<"Unsupported translation direction: ", dir>>))
                        /\ Discard
                        /\ UNCHANGED models
                   ELSE \* translate.py:45-54: the model loads, or
                        \* translate.py:56-59: loading fails, sys.exit(1)
                        \/ /\ models' = models \cup {dir}
                           /\ Translate
                        \/ /\ Raise(j, Exception("SystemExit", "1"))
                           /\ Discard
                           /\ UNCHANGED models
    /\ UNCHANGED <<tasks, fs, svars, original_lines, output_written, output_files, removals, qvars, fvars>>

\* main.py:66, translate.py:108-111: the engine is called for a non-blank
\* line and never returns (nothing in the code bounds the call): the thread
\* stays inside the call for good.
WorkerEngineHangs(j) ==
    /\ wpc[j] = "l66"
    /\ LET line == original_lines[j][Len(translated_lines[j]) + 1]
       IN  /\ Strip(line) # <<>>
           /\ ResolveDirection(line, direction[j]) \in SupportedDirections
    /\ engine_calls' = [engine_calls EXCEPT ![j] = @ + 1]
    /\ wpc' = [wpc EXCEPT ![j] = "hung"]
    /\ UNCHANGED <<tasks, fs, models, svars, original_lines, translated_lines, exc,
                   output_written, output_files, removals, qvars, fvars>>

\* main.py:69-70  the output path: OUTPUT_DIR, the original file name without
\* its extension (the name stands for it), "_translated.txt".
OutputPath(original_filename) ==
    <<"translated_files/", original_filename, "_translated.txt">>

\* "\n".join(strs)
RECURSIVE JoinNewline(_)
JoinNewline(strs) ==
    IF strs = <<>> THEN <<>>
    ELSE IF Len(strs) = 1 THEN strs[1]
    ELSE strs[1] \o <<"\n">> \o JoinNewline(Tail(strs))

\* main.py:69-72: the translated lines are written to the output file (made
\* anew or overwritten), or the write raises (OSError).
WorkerWrite(j) ==
    /\ wpc[j] = "l71"
    /\ \/ /\ output_written' = [output_written EXCEPT ![j] = TRUE]
          /\ output_files' = DictSet(output_files, OutputPath(filename[j]),
                                     JoinNewline(translated_lines[j]))
          /\ wpc' = [wpc EXCEPT ![j] = "l84"]
          /\ UNCHANGED exc
       \/ /\ Raise(j, Exception("OSError", "cannot write the output file"))
          /\ UNCHANGED <<output_written, output_files>>
    /\ UNCHANGED <<tasks, fs, models, svars, original_lines, translated_lines,
                   engine_calls, removals, qvars, fvars>>

\* main.py:84  tasks[task_id]['status'] = 'completed'
WorkerCompleted(j) ==
    /\ wpc[j] = "l84"
    /\ SetTaskKey(j, "status", "completed")
    /\ wpc' = [wpc EXCEPT ![j] = "l85"]
    /\ UNCHANGED <<fs, models, svars, original_lines, translated_lines, exc,
                   engine_calls, output_written, output_files, removals, qvars, fvars>>

\* main.py:75-81  the result payload
Result(j) ==
    [original_lines |-> original_lines[j],
     translated_lines |-> translated_lines[j],
     word_count_original |-> count_words(original_lines[j]),
     word_count_translated |-> count_words(translated_lines[j]),
     output_file |-> OutputPath(filename[j])]

\* A faulty variant of WorkerResult: storing the result raises after the status was set
\* to completed, which takes the worker to the except clause.
WorkerResultRaises(j) ==
    /\ wpc[j] = "l85"
    /\ Raise(j, Exception("TypeError", "result cannot be stored"))
    /\ UNCHANGED <<tasks, fs, models, svars, original_lines, translated_lines,
                   engine_calls, output_written, output_files, removals, qvars, fvars>>

\* main.py:85  tasks[task_id]['result'] = result
WorkerResult(j) ==
    /\ wpc[j] = "l85"
    /\ SetTaskKey(j, "result", Result(j))
    /\ wpc' = [wpc EXCEPT ![j] = "l92"]
    /\ UNCHANGED <<fs, models, svars, original_lines, translated_lines, exc,
                   engine_calls, output_written, output_files, removals, qvars, fvars>>

\* main.py:88  tasks[task_id]['status'] = 'failed'
WorkerFailed(j) ==
    /\ wpc[j] = "l88"
    /\ SetTaskKey(j, "status", "failed")
    /\ wpc' = [wpc EXCEPT ![j] = "l89"]
    /\ UNCHANGED <<fs, models, svars, original_lines, translated_lines, exc,
                   engine_calls, output_written, output_files, removals, qvars, fvars>>

\* A faulty variant of WorkerError: the error is stored under the key 'result'.
WorkerErrorAsResult(j) ==
    /\ wpc[j] = "l89"
    /\ SetTaskKey(j, "result", exc[j][1].message)
    /\ wpc' = [wpc EXCEPT ![j] = "l92"]
    /\ UNCHANGED <<fs, models, svars, original_lines, translated_lines, exc,
                   engine_calls, output_written, output_files, removals, qvars, fvars>>

\* main.py:89  tasks[task_id]['error'] = str(e)
WorkerError(j) ==
    /\ wpc[j] = "l89"
    /\ SetTaskKey(j, "error", exc[j][1].message)
    /\ wpc' = [wpc EXCEPT ![j] = "l92"]
    /\ UNCHANGED <<fs, models, svars, original_lines, translated_lines, exc,
                   engine_calls, output_written, output_files, removals, qvars, fvars>>

\* A faulty variant of WorkerFinallyExists: the clean-up is the last statement of the
\* try block instead of a finally clause, so a failed job skips it.
WorkerCleanupOnSuccess(j) ==
    /\ wpc[j] = "l92"
    /\ IF pdf_path[j] \in fs /\ exc[j] = None
       THEN /\ wpc' = [wpc EXCEPT ![j] = "l93"]
            /\ UNCHANGED <<direction, original_lines, translated_lines>>
       ELSE ThreadEnd(j)
    /\ UNCHANGED <<tasks, fs, models, rpc, filename, task_id, pdf_path, exc,
                   engine_calls, output_written, output_files, removals, qvars, fvars>>

\* main.py:92  if os.path.exists(pdf_path)
WorkerFinallyExists(j) ==
    /\ wpc[j] = "l92"
    /\ IF pdf_path[j] \in fs
       THEN /\ wpc' = [wpc EXCEPT ![j] = "l93"]
            /\ UNCHANGED <<direction, original_lines, translated_lines>>
       ELSE ThreadEnd(j)
    /\ UNCHANGED <<tasks, fs, models, rpc, filename, task_id, pdf_path, exc,
                   engine_calls, output_written, output_files, removals, qvars, fvars>>

\* main.py:93  os.remove(pdf_path); the thread ends.
WorkerFinallyRemove(j) ==
    /\ wpc[j] = "l93"
    /\ fs' = fs \ {pdf_path[j]}
    /\ removals' = [removals EXCEPT ![j] = @ + 1]
    /\ ThreadEnd(j)
    /\ UNCHANGED <<tasks, models, rpc, filename, task_id, pdf_path, exc,
                   engine_calls, output_written, output_files, qvars, fvars>>

\* ------------------------------------------------- GET /status/<task_id>
\* The dict the handler's local `task` refers to.
QTask == tasks[q_task_id]

\* A faulty variant of QueryLookup: tasks.setdefault(task_id, {'status': 'pending'}) in
\* place of tasks.get(task_id): an unknown id gets a default job.
QueryLookupSetdefault ==
    /\ qpc = "idle"
    /\ \E id \in TaskIds :
        /\ q_task_id' = id
        /\ tasks' = IF id \in DOMAIN tasks THEN tasks
                    ELSE DictSet(tasks, id, [status |-> "pending"])
        /\ response' = EmptyDict
        /\ qpc' = "l162"
    /\ UNCHANGED <<fs, models, svars, wvars, fvars>>

\* main.py:158-160  task = tasks.get(task_id); 404 when there is none.
QueryLookup ==
    /\ qpc = "idle"
    /\ \E id \in TaskIds :
        /\ q_task_id' = id
        /\ IF DictGet(tasks, id) = None \/ DOMAIN tasks[id] = {}
           THEN /\ response' = [code |-> 404, error |-> Some("Task not found.")]
                /\ qpc' = "ret"
           ELSE /\ response' = EmptyDict
                /\ qpc' = "l162"
    /\ UNCHANGED <<tasks, fs, models, svars, wvars, fvars>>

\* main.py:162  response = {"task_id": task_id, "status": task.get('status')}
QueryStatus ==
    /\ qpc = "l162"
    /\ response' = [code |-> 200, task_id |-> q_task_id,
                    status |-> DictGet(QTask, "status")]
    /\ qpc' = "l164"
    /\ UNCHANGED <<tasks, fs, models, svars, wvars, fvars, q_task_id>>

\* main.py:164  if task.get('status') == 'completed'
QueryIfCompleted ==
    /\ qpc = "l164"
    /\ qpc' = IF DictGet(QTask, "status") = Some("completed") THEN "l165" ELSE "l166"
    /\ UNCHANGED <<tasks, fs, models, svars, wvars, fvars, q_task_id, response>>

\* main.py:165  response['result'] = task.get('result'), then the return
QueryResult ==
    /\ qpc = "l165"
    /\ response' = DictSet(response, "result", DictGet(QTask, "result"))
    /\ qpc' = "ret"
    /\ UNCHANGED <<tasks, fs, models, svars, wvars, fvars, q_task_id>>

\* main.py:166  elif task.get('status') == 'failed'
QueryIfFailed ==
    /\ qpc = "l166"
    /\ qpc' = IF DictGet(QTask, "status") = Some("failed") THEN "l167" ELSE "ret"
    /\ UNCHANGED <<tasks, fs, models, svars, wvars, fvars, q_task_id, response>>

\* main.py:167  response['error'] = task.get('error'), then the return
QueryError ==
    /\ qpc = "l167"
    /\ response' = DictSet(response, "error", DictGet(QTask, "error"))
    /\ qpc' = "ret"
    /\ UNCHANGED <<tasks, fs, models, svars, wvars, fvars, q_task_id>>

\* The client has the response; the next status request can come.
QueryDone ==
    /\ qpc = "ret"
    /\ qpc' = "idle"
    /\ q_task_id' = 0
    /\ response' = EmptyDict
    /\ UNCHANGED <<tasks, fs, models, svars, wvars, fvars>>

\* ------------------------------------------------------ specification
Submit(j) ==
    \/ SubmitReject(j) \/ SubmitSave(j) \/ SubmitInsert(j)
    \/ SubmitStart(j) \/ SubmitReturn(j)

Worker(j) ==
    \/ WorkerStart(j) \/ WorkerExtract(j) \/ WorkerTranslateLine(j)
    \/ WorkerEngineHangs(j)
    \/ WorkerWrite(j) \/ WorkerCompleted(j) \/ WorkerResult(j)
    \/ WorkerFailed(j) \/ WorkerError(j)
    \/ WorkerFinallyExists(j) \/ WorkerFinallyRemove(j)

Query ==
    \/ QueryLookup \/ QueryStatus \/ QueryIfCompleted \/ QueryResult
    \/ QueryIfFailed \/ QueryError \/ QueryDone

Next ==
    \/ \E j \in Slots : Submit(j)
    \/ \E j \in Slots : Worker(j)
    \/ Query

Spec == Init /\ [][Next]_vars

\* A request being handled is handled to its end, and a started thread keeps
\* running while it has a step to take (the interpreter switches between
\* threads); nobody has to send a request.
SubmitInProgress(j) == SubmitInsert(j) \/ SubmitStart(j) \/ SubmitReturn(j)

QueryInProgress ==
    \/ QueryStatus \/ QueryIfCompleted \/ QueryResult
    \/ QueryIfFailed \/ QueryError \/ QueryDone

Fairness ==
    /\ \A j \in Slots : WF_vars(Worker(j))
    /\ \A j \in Slots : WF_vars(SubmitInProgress(j))
    /\ WF_vars(QueryInProgress)

FairSpec == Spec /\ Fairness

\* ------------------------------------------------------------ claims
Issued(j) == task_id[j] \in DOMAIN tasks

Status(id) == tasks[id].status

Terminal == {"completed", "failed"}

StatusEdges ==
    {<<"pending", "processing">>, <<"processing", "completed">>,
     <<"processing", "failed">>}

\* C1: in every step, every job stays in the table and its status stays as
\* it is or moves along pending -> processing, processing -> completed or
\* processing -> failed; so a completed or failed status never changes and no
\* status goes back to pending or processing.
C1_StatusMonotonic ==
    [][\A id \in DOMAIN tasks :
          /\ id \in DOMAIN tasks'
          /\ \/ tasks'[id].status = tasks[id].status
             \/ <<tasks[id].status, tasks'[id].status>> \in StatusEdges]_vars

C1_Witness ==
    \E a, b \in DOMAIN tasks : Status(a) = "completed" /\ Status(b) = "failed"

\* C2 (as claimed): a response of get_status that reports completed carries
\* the result, and one that reports failed carries the error.
C2_ResponseComplete ==
    (qpc = "ret" /\ response.code = 200) =>
        /\ response.status = Some("completed") =>
              "result" \in DOMAIN response /\ response.result # None
        /\ response.status = Some("failed") =>
              "error" \in DOMAIN response /\ response.error # None

\* C3 (as claimed): when the worker has ended after a sub-step failed, the
\* job is failed and its error is the cause's message.
C3_FailureRecorded ==
    \A j \in Slots :
        (wpc[j] = "done" /\ exc[j] # None) =>
            /\ Status(task_id[j]) = "failed"
            /\ DictGet(Task(j), "error") = Some(exc[j][1].message)

\* C4 (as claimed): no worker ends while its job is pending or processing.
C4_EndsTerminal ==
    \A j \in Slots : wpc[j] = "done" => Status(task_id[j]) \in Terminal

\* C5: a worker removes its temporary input file at most once, and when the
\* worker has ended it has removed it exactly once, whatever the outcome.
C5_RemovedOnce ==
    \A j \in Slots :
        /\ removals[j] <= 1
        /\ wpc[j] = "done" => removals[j] = 1
        /\ (wpc[j] \notin {"none", "done"}) => (removals[j] = 0 /\ pdf_path[j] \in fs)

\* Two ended workers, one after a failed write of the output and one after a
\* completed job, each with its file removed once.
C5_Witness ==
    \E a, b \in Slots :
        /\ wpc[a] = "done" /\ exc[a] # None /\ exc[a][1].type = "OSError"
        /\ wpc[b] = "done" /\ Issued(b) /\ Status(task_id[b]) = "completed"
        /\ removals[a] = 1 /\ removals[b] = 1
        /\ fs = {}

\* C6 (as claimed): a job that is pending or processing has its temporary
\* input file.
C6_OwnsInput ==
    \A j \in Slots :
        (Issued(j) /\ Status(task_id[j]) \in {"pending", "processing"}) =>
            pdf_path[j] \in fs

\* C7: the job is in the table, pending, from before its worker is launched
\* until the worker's first step; every step of a status query for the job that is taken after the
\* submission returned and before the worker's first step finds the job and
\* reads pending.
BeforeFirstStep(j) == rpc[j] = "returned" /\ wpc[j] = "l58"

C7_PendingOnReturn ==
    /\ [](\A j \in Slots :
            /\ wpc[j] # "none" => Issued(j)
            /\ rpc[j] \in {"l146", "returned"} => Issued(j) /\ wpc[j] # "none"
            /\ (Issued(j) /\ wpc[j] \in {"none", "l58"}) =>
                   Task(j) = [status |-> "pending"])
    /\ [][\A j \in Slots :
            (BeforeFirstStep(j) /\ qpc' # qpc /\ q_task_id' = task_id[j]) =>
                /\ qpc' \in {"l162", "l164", "l166", "ret"}
                /\ qpc' # "l162" => response' = [code |-> 200, task_id |-> task_id[j],
                                                 status |-> Some("pending")]]_vars

C7_Witness ==
    \E j \in Slots :
        /\ BeforeFirstStep(j)
        /\ qpc = "ret" /\ q_task_id = task_id[j]
        /\ response.code = 200 /\ response.status = Some("pending")

\* C8: a worker whose extraction gave no lines has raised the 'no text' error,
\* whose message is not empty; the job of such a worker is processing until it
\* is failed and ends failed with that message, and the worker makes no
\* engine call and writes no output.
NoText == Exception("ValueError", "Could not extract text from PDF.")

C8_NoTextFails ==
    \A j \in Slots :
        /\ (wpc[j] \notin {"none", "l58", "l61", "done"} /\ original_lines[j] = <<>>) =>
              exc[j] = NoText
        /\ exc[j] = NoText =>
            /\ NoText[1].message # ""
            /\ engine_calls[j] = 0
            /\ ~output_written[j]
            /\ wpc[j] \in {"l88", "l89", "l92", "l93", "done"}
            /\ wpc[j] = "l88" => Status(task_id[j]) = "processing"
            /\ wpc[j] # "l88" => Status(task_id[j]) = "failed"
            /\ wpc[j] \in {"l92", "l93", "done"} =>
                   DictGet(Task(j), "error") = Some(NoText[1].message)

C8_Witness ==
    \E j \in Slots :
        /\ wpc[j] = "done" /\ exc[j] = NoText
        /\ Task(j) = [status |-> "failed", error |-> NoText[1].message]

\* C9: no step of a status query changes the job table; the lookup reports
\* 'not found' exactly for an id that is not in the table and goes on with the
\* job exactly for an id that is in it; a response with a status is for an id
\* of the table.
C9_QueryReadOnly ==
    [][/\ Query => tasks' = tasks
       /\ QueryLookup =>
            /\ (q_task_id' \notin DOMAIN tasks) <=> (qpc' = "ret" /\ response'.code = 404)
            /\ (q_task_id' \in DOMAIN tasks) <=> qpc' = "l162"
       /\ (qpc = "ret" /\ response.code = 200) => q_task_id \in DOMAIN tasks]_vars

C9_Witness ==
    /\ qpc = "ret" /\ response.code = 404
    /\ q_task_id \notin DOMAIN tasks
    /\ DOMAIN tasks # {}

\* C10: a result is only ever present on a completed job and an error only
\* on a failed job; once the worker has ended, a completed job has a result
\* and no error and a failed job has an error and no result.
C10_RecordConsistent ==
    /\ \A id \in DOMAIN tasks :
        /\ "result" \in DOMAIN tasks[id] => Status(id) = "completed"
        /\ "error" \in DOMAIN tasks[id] => Status(id) = "failed"
    /\ \A j \in Slots : wpc[j] = "done" =>
        /\ Status(task_id[j]) = "completed" =>
              DOMAIN Task(j) = {"status", "result"}
        /\ Status(task_id[j]) = "failed" =>
              DOMAIN Task(j) = {"status", "error"}

C10_Witness ==
    \E a, b \in Slots :
        /\ wpc[a] = "done" /\ DOMAIN Task(a) = {"status", "result"}
        /\ wpc[b] = "done" /\ DOMAIN Task(b) = {"status", "error"}

\* ================================================================
\* translate_lines (main.py:44-48) as one call on the caller's thread
\* ================================================================
MaxCallLines == 3   \* longest list of lines a call is made with

Meem == "ARABIC LETTER MEEM"

\* The lines a call is made with: empty, whitespace only, English, Arabic.
CallLines == {<<>>, <<" ">>, <<"H", "i">>, <<Meem, Meem>>}

\* The direction argument: absent, the two supported ones, an unsupported one.
CallDirections == Directions \cup {"ar2en"}

\* A faulty variant of IsBlankLine: `if line` in place of `if line.strip()`.
IsEmptyLine(line) == line = <<>>

\* main.py:46  the test `line.strip()` fails
IsBlankLine(line) == Strip(line) = <<>>

\* A faulty variant of TranslateLine: the direction is detected once, on the
\* first line of the list, and used for every line.
TranslateLinePerCall(lines, i, direction_) ==
    LET dir == ResolveDirection(lines[1], direction_)
    IN  [text |-> lines[i], dir |-> dir, out |-> translate_text(lines[i], dir)]

\* main.py:46  translator.translate_text(line, direction=direction) for line i
\* of the list: the text it is called with, the direction the engine works
\* with (translate.py:119-125; an absent direction is detected on this text)
\* and what it returns when the engine returns.
TranslateLine(lines, i, direction_) ==
    [text |-> lines[i],
     dir |-> ResolveDirection(lines[i], direction_),
     out |-> translate_text(lines[i], direction_)]

InitLines ==
    /\ JobsInit
    /\ \E lines \in SeqsUpTo(CallLines, MaxCallLines), d \in CallDirections :
          call = Some([fn |-> "translate_lines", lines |-> lines, direction |-> d])
    /\ cpc = "l45"
    /\ acc = <<>>
    /\ ret = None
    /\ log = <<>>

JobsUnchanged == UNCHANGED <<tasks, fs, models, svars, wvars, qvars>>

\* translate_lines runs as a call of its own or inside translate_text_endpoint
\* (main.py:105).
TranslateLinesCallers == {"translate_lines", "translate_text_endpoint"}

\* An exception leaves the call: the list it was building is dropped.
CallRaises(e) ==
    /\ cpc' = "raised"
    /\ acc' = <<>>
    /\ ret' = e

\* main.py:46-47  one element of the list comprehension.
TranslateLinesElement ==
    /\ cpc = "l45"
    /\ call[1].fn \in TranslateLinesCallers
    /\ Len(acc) < Len(call[1].lines)
    /\ LET i == Len(acc) + 1
           t == TranslateLine(call[1].lines, i, call[1].direction)
       IN  IF IsBlankLine(call[1].lines[i])
           THEN /\ acc' = Append(acc, <<>>)
                /\ UNCHANGED <<cpc, ret, log>>
           ELSE /\ log' = Append(log, [text |-> t.text, dir |-> t.dir])
                /\ IF t.dir \notin SupportedDirections
                   THEN CallRaises(Exception("ValueError",
                            <<"Unsupported translation direction: ", t.dir>>))
                   ELSE \/ /\ acc' = Append(acc, t.out)
                           /\ UNCHANGED <<cpc, ret>>
                        \/ CallRaises(Exception("RuntimeError", "engine failure"))
    /\ UNCHANGED call
    /\ JobsUnchanged

\* main.py:45-48  the comprehension is through: the list is returned.
TranslateLinesReturn ==
    /\ cpc = "l45"
    /\ call[1].fn \in TranslateLinesCallers
    /\ Len(acc) = Len(call[1].lines)
    /\ ret' = Some(acc)
    /\ cpc' = IF call[1].fn = "translate_lines" THEN "returned" ELSE "l106"
    /\ UNCHANGED <<call, acc, log>>
    /\ JobsUnchanged

NextLines == TranslateLinesElement \/ TranslateLinesReturn

SpecLines == InitLines /\ [][NextLines]_vars

\* C11: the list translate_lines returns has the length of its input; entry
\* i is "" exactly where line i is blank, and is what translate_text returns
\* for line i elsewhere; translate_text was called for the non-blank lines
\* only, once each, in input order.
C11_LinesAligned ==
    (cpc = "returned" /\ call[1].fn = "translate_lines") =>
        LET lines == call[1].lines
            out == ret[1]
            nonblank == SelectSeq(lines, LAMBDA l : Strip(l) # <<>>)
        IN  /\ Len(out) = Len(lines)
            /\ \A i \in 1..Len(lines) :
                  /\ out[i] = <<>> <=> Strip(lines[i]) = <<>>
                  /\ Strip(lines[i]) # <<>> =>
                        out[i] = translate_text(lines[i], call[1].direction)
            /\ Len(log) = Len(nonblank)
            /\ \A k \in 1..Len(log) : log[k].text = nonblank[k]

\* The list of the spec's example, ["Hello", "", "World"], in shape: a blank
\* line between two others, and a whitespace-only line somewhere.
C11_Witness ==
    /\ cpc = "returned" /\ call[1].fn = "translate_lines"
    /\ call[1].lines = << <<"H", "i">>, <<>>, <<"H", "i">> >>
    /\ ret[1][1] # <<>> /\ ret[1][2] = <<>> /\ ret[1][3] # <<>>
    /\ Len(log) = 2

\* The direction a line is translated with when the call names none.
DetectedDirection(line) == IF detect_language(line) = "ar" THEN "ar2en" ELSE "en2ar"

MaxTextLen == 4    \* longest text drawn from TextAlphabet
MaxChunkLen == 3   \* largest max_length chunk_text is called with

\* A letter, a blank and two sentence terminators.
TextAlphabet == {"a", " ", ".", "?"}

\* "Hi there. How are you?"
HiThereHowAreYou ==
    <<"H", "i", " ", "t", "h", "e", "r", "e", ".", " ",
      "H", "o", "w", " ", "a", "r", "e", " ", "y", "o", "u", "?">>

Texts == SeqsUpTo(TextAlphabet, MaxTextLen) \cup {HiThereHowAreYou}

InitText ==
    /\ JobsInit
    /\ \/ \E text \in Texts, n \in 1..MaxChunkLen :
             /\ call = Some([fn |-> "chunk_text", text |-> text, max_length |-> n])
             /\ cpc = "l75"
       \/ \E text \in Texts, d \in CallDirections :
             /\ call = Some([fn |-> "translate_text", text |-> text, direction |-> d])
             /\ cpc = "l119"
    /\ acc = <<>>
    /\ ret = None
    /\ log = <<>>

\* translate.py:75-98  chunk_text(text, max_length) runs and returns.
ChunkTextCall ==
    /\ cpc = "l75"
    /\ call[1].fn = "chunk_text"
    /\ ret' = Some(chunk_text(call[1].text, call[1].max_length))
    /\ cpc' = "returned"
    /\ UNCHANGED <<call, acc, log>>
    /\ JobsUnchanged

\* translate.py:119-129  the direction is resolved, the model loaded and the
\* text chunked with the default max_length.
TranslateTextPrepare ==
    /\ cpc = "l119"
    /\ call[1].fn = "translate_text"
    /\ LET dir == ResolveDirection(call[1].text, call[1].direction)
       IN  IF dir \notin SupportedDirections
           THEN CallRaises(Exception("ValueError",
                    <<"Unsupported translation direction: ", dir>>))
           ELSE \/ /\ cpc' = "l133"
                   /\ UNCHANGED <<acc, ret>>
                \/ CallRaises(Exception("SystemExit", "1"))
    /\ UNCHANGED <<call, log>>
    /\ JobsUnchanged

\* The chunks translate_text works on (translate.py:128).
CallChunks == chunk_text(call[1].text, DefaultMaxLength)

\* translate.py:133-136  one round of the loop over the chunks: acc holds the
\* translations appended so far, with <<>> for a chunk that was skipped.
TranslateTextChunk ==
    /\ cpc = "l133"
    /\ call[1].fn = "translate_text"
    /\ Len(acc) < Len(CallChunks)
    /\ LET chunk == CallChunks[Len(acc) + 1]
           dir == ResolveDirection(call[1].text, call[1].direction)
       IN  IF Strip(chunk) = <<>>
           THEN /\ acc' = Append(acc, None)
                /\ UNCHANGED <<cpc, ret, log>>
           ELSE /\ log' = Append(log, [text |-> chunk, dir |-> dir])
                /\ \/ /\ acc' = Append(acc, Some(translate_chunk(chunk, dir)))
                      /\ UNCHANGED <<cpc, ret>>
                   \/ CallRaises(Exception("RuntimeError", "engine failure"))
    /\ UNCHANGED call
    /\ JobsUnchanged

\* translate.py:139  " ".join(translations)
TranslateTextReturn ==
    /\ cpc = "l133"
    /\ call[1].fn = "translate_text"
    /\ Len(acc) = Len(CallChunks)
    /\ LET appended == SelectSeq(acc, LAMBDA t : t # None)
       IN  ret' = Some(JoinSpace([i \in 1..Len(appended) |-> appended[i][1]]))
    /\ cpc' = "returned"
    /\ UNCHANGED <<call, acc, log>>
    /\ JobsUnchanged

NextText ==
    \/ ChunkTextCall
    \/ TranslateTextPrepare
    \/ TranslateTextChunk
    \/ TranslateTextReturn

SpecText == InitText /\ [][NextText]_vars

\* The non-empty trimmed sentences of a text, in order.
TrimmedSentences(text) ==
    SelectSeq([i \in 1..Len(SplitSentences(text)) |-> Strip(SplitSentences(text)[i])],
              LAMBDA x : x # <<>>)

\* ". ".join(strs)
RECURSIVE JoinSentences(_)
JoinSentences(strs) ==
    IF strs = <<>> THEN <<>>
    ELSE IF Len(strs) = 1 THEN strs[1]
    ELSE strs[1] \o <<".", " ">> \o JoinSentences(Tail(strs))

Returned(fn) == cpc = "returned" /\ call[1].fn = fn

\* C13: every chunk chunk_text returns is at most max_length long, unless it
\* is a single sentence of the text (or the text itself, returned whole) that
\* is longer than max_length; a chunk of several sentences never is longer.
C13_ChunkLength ==
    Returned("chunk_text") =>
        \A i \in 1..Len(ret[1]) :
            LET chunk == ret[1][i]
                single == \/ \E k \in 1..Len(TrimmedSentences(call[1].text)) :
                                chunk = TrimmedSentences(call[1].text)[k]
                          \/ chunk = call[1].text
            IN  Len(chunk) <= call[1].max_length \/ single

\* C14 as stated: the chunks joined with ". " are the non-empty trimmed
\* sentences of the text joined with ". ".
C14_JoinReconstructs ==
    Returned("chunk_text") =>
        JoinSentences(ret[1]) = JoinSentences(TrimmedSentences(call[1].text))

\* C14, amended: when the text has a non-empty trimmed sentence, the chunks
\* joined with ". " are its non-empty trimmed sentences joined with ". ";
\* when it has none, the one chunk is the text itself, as it was given.
C14_JoinReconstructsOrWhole ==
    Returned("chunk_text") =>
        IF TrimmedSentences(call[1].text) # <<>>
        THEN JoinSentences(ret[1]) = JoinSentences(TrimmedSentences(call[1].text))
        ELSE ret[1] = <<call[1].text>>

\* Two sentences closed into two chunks.
C14_Witness ==
    /\ Returned("chunk_text")
    /\ Len(TrimmedSentences(call[1].text)) = 2
    /\ Len(ret[1]) = 2
    /\ call[1].max_length = 1

\* C15: chunk_text returns at least one chunk; the empty text and a text with
\* no usable sentence come back as one chunk, the text itself; a chunk is the
\* empty string only when the text is.
C15_NeverZeroChunks ==
    Returned("chunk_text") =>
        /\ Len(ret[1]) >= 1
        /\ TrimmedSentences(call[1].text) = <<>> => ret[1] = <<call[1].text>>
        /\ \A i \in 1..Len(ret[1]) : ret[1][i] = <<>> => call[1].text = <<>>

\* A text of terminators and blanks only comes back whole.
C15_Witness ==
    /\ Returned("chunk_text")
    /\ call[1].text = <<" ", ".", "?">>
    /\ ret[1] = << <<" ", ".", "?">> >>

HiThereSentence == <<"H", "i", " ", "t", "h", "e", "r", "e">>
HowAreYouSentence == <<"H", "o", "w", " ", "a", "r", "e", " ", "y", "o", "u">>

TranslatedExample(d) ==
    /\ Returned("translate_text")
    /\ call[1].text = HiThereHowAreYou
    /\ call[1].direction = d

\* C16 as stated: translating "Hi there. How are you?" with an explicit
\* direction calls the engine twice, once per sentence in order, and returns
\* the two translations joined by one space.
C16_TwoEngineCalls ==
    \A d \in SupportedDirections :
        TranslatedExample(d) =>
            /\ log = << [text |-> HiThereSentence, dir |-> d],
                       [text |-> HowAreYouSentence, dir |-> d] >>
            /\ ret[1] = Engine(HiThereSentence, d) \o <<" ">> \o Engine(HowAreYouSentence, d)

\* C16, amended: translating "Hi there. How are you?" with an explicit
\* direction calls the engine once, with the one chunk "Hi there. How are you"
\* (the two sentences rejoined with ". ", the final "?" gone), and returns
\* the engine's output for it as it is.
C16_OneEngineCall ==
    \A d \in SupportedDirections :
        TranslatedExample(d) =>
            /\ log = << [text |-> HiThereSentence \o <<".", " ">> \o HowAreYouSentence,
                         dir |-> d] >>
            /\ ret[1] = Engine(HiThereSentence \o <<".", " ">> \o HowAreYouSentence, d)

C16_Witness ==
    /\ TranslatedExample("en2ar")
    /\ Len(log) = 1
    /\ Len(ret[1]) = 2 + Len(HiThereHowAreYou) - 1

\* ================================================================
\* translate_lines_streaming (streamlit_app.py:27-36): a generator and the
\* consumer that pulls it
\* ================================================================
InitStream ==
    /\ JobsInit
    /\ \E lines \in SeqsUpTo(CallLines, MaxCallLines), d \in CallDirections :
          call = Some([fn |-> "translate_lines_streaming", lines |-> lines,
                       direction |-> d])
    /\ cpc = "l29"
    /\ acc = <<>>
    /\ ret = <<>>
    /\ log = <<>>

\* A faulty variant of YieldedStep: the index of enumerate is yielded as it is.
YieldedStepZeroBased(translated, i, lines) ==
    [partial |-> translated, currentIndex |-> i, totalLines |-> Len(lines)]

\* streamlit_app.py:36  yield translated, i + 1, len(lines), with i the index
\* enumerate gives (from 0), as the consumer sees it when it is handed over.
YieldedStep(translated, i, lines) ==
    [partial |-> translated, currentIndex |-> i + 1, totalLines |-> Len(lines)]

\* streamlit_app.py:30-36  next() on the generator while lines are left: the
\* line is translated, appended to the list `translated` (acc) and the step
\* is yielded (ret collects the steps handed to the consumer); an exception
\* of translate_text ends the generator.
StreamNext ==
    /\ cpc \in {"l29", "l36"}
    /\ call[1].fn = "translate_lines_streaming"
    /\ Len(acc) < Len(call[1].lines)
    /\ LET i == Len(acc)
           t == TranslateLine(call[1].lines, i + 1, call[1].direction)
           Yield(translated_line) ==
               /\ acc' = Append(acc, translated_line)
               /\ ret' = Append(ret, YieldedStep(acc', i, call[1].lines))
               /\ cpc' = "l36"
       IN  IF IsBlankLine(call[1].lines[i + 1])
           THEN Yield(<<>>) /\ UNCHANGED log
           ELSE /\ log' = Append(log, [text |-> t.text, dir |-> t.dir])
                /\ IF t.dir \notin SupportedDirections
                   THEN cpc' = "raised" /\ UNCHANGED <<acc, ret>>
                   ELSE \/ Yield(t.out)
                        \/ cpc' = "raised" /\ UNCHANGED <<acc, ret>>
    /\ UNCHANGED call
    /\ JobsUnchanged

\* streamlit_app.py:30  next() when the loop is through: StopIteration.
StreamExhausted ==
    /\ cpc \in {"l29", "l36"}
    /\ call[1].fn = "translate_lines_streaming"
    /\ Len(acc) = Len(call[1].lines)
    /\ cpc' = "exhausted"
    /\ UNCHANGED <<call, acc, ret, log>>
    /\ JobsUnchanged

NextStream == StreamNext \/ StreamExhausted

SpecStream == InitStream /\ [][NextStream]_vars

\* C17: pulled to exhaustion, the stream of a unit of n lines has emitted n
\* steps; step k reports currentIndex k and totalLines n, its list holds the
\* final translations of the first k lines, and it is the list of step k-1
\* with one entry added.
C17_StreamSteps ==
    call[1].fn = "translate_lines_streaming" =>
        LET lines == call[1].lines
            n == Len(lines)
            Final(i) == IF Strip(lines[i]) = <<>> THEN <<>>
                        ELSE translate_text(lines[i], call[1].direction)
        IN  /\ cpc = "exhausted" => Len(ret) = n
            /\ Len(ret) <= n
            /\ \A k \in 1..Len(ret) :
                  /\ ret[k].currentIndex = k
                  /\ ret[k].totalLines = n
                  /\ Len(ret[k].partial) = k
                  /\ \A i \in 1..k : ret[k].partial[i] = Final(i)
                  /\ k > 1 => SubSeq(ret[k].partial, 1, k - 1) = ret[k - 1].partial

C17_Witness ==
    /\ call[1].fn = "translate_lines_streaming"
    /\ cpc = "exhausted"
    /\ Len(call[1].lines) = 3
    /\ Len(ret) = 3
    /\ ret[3].currentIndex = 3
    /\ ret[2].partial[2] = <<>> /\ ret[3].partial[3] # <<>>

\* ================================================================
\* The request handlers: POST /translate/text (main.py:96-112) next to
\* POST /translate/pdf (main.py:115-150), each up to its return
\* ================================================================
MaxBodyLen == 3   \* longest 'text' of a request body

Newline == "\n"

\* str.splitlines(): the pieces between line breaks; a text that is empty or
\* ends with a line break has no last empty line.
RECURSIVE SplitLinesRec(_, _)
SplitLinesRec(rest, piece) ==
    IF rest = <<>> THEN (IF piece = <<>> THEN <<>> ELSE <<piece>>)
    ELSE IF Head(rest) = Newline
         THEN <<piece>> \o SplitLinesRec(Tail(rest), <<>>)
         ELSE SplitLinesRec(Tail(rest), Append(piece, Head(rest)))

splitlines(text) == SplitLinesRec(text, <<>>)

\* request.get_json(): text is None when the body is no JSON object or has no
\* 'text' key; direction is "" when there is no 'direction' key.
Bodies ==
    [text : {None} \cup {Some(t) : t \in SeqsUpTo({"a", " ", Newline, Meem}, MaxBodyLen)},
     direction : CallDirections]

InitHandlers ==
    /\ JobsInit
    /\ \E b \in Bodies :
          call = Some([fn |-> "translate_text_endpoint", body |-> b,
                       lines |-> <<>>, direction |-> ""])
    /\ cpc = "l100"
    /\ acc = <<>>
    /\ ret = None
    /\ log = <<>>

\* main.py:101  not data or 'text' not in data
InvalidRequest(body) == body.text = None

\* main.py:101-102  the request is answered 400.
TextEndpointReject ==
    /\ cpc = "l100"
    /\ call[1].fn = "translate_text_endpoint"
    /\ InvalidRequest(call[1].body)
    /\ ret' = Some([code |-> 400,
                    error |-> "Invalid request. 'text' key is required."])
    /\ cpc' = "returned"
    /\ UNCHANGED <<call, acc, log>>
    /\ JobsUnchanged

\* main.py:103-105  the text is split into lines and translate_lines called.
TextEndpointAccept ==
    /\ cpc = "l100"
    /\ call[1].fn = "translate_text_endpoint"
    /\ ~InvalidRequest(call[1].body)
    /\ call' = Some([call[1] EXCEPT !.lines = splitlines(call[1].body.text[1]),
                                    !.direction = call[1].body.direction])
    /\ cpc' = "l45"
    /\ UNCHANGED <<acc, ret, log>>
    /\ JobsUnchanged

\* main.py:106-112  the response is built from the lines and answered 200.
TextEndpointRespond ==
    /\ cpc = "l106"
    /\ call[1].fn = "translate_text_endpoint"
    /\ ret' = Some([code |-> 200,
                    original_lines |-> call[1].lines,
                    translated_lines |-> ret[1],
                    word_count_original |-> count_words(call[1].lines),
                    word_count_translated |-> count_words(ret[1])])
    /\ cpc' = "returned"
    /\ UNCHANGED <<call, acc, log>>
    /\ JobsUnchanged

TextEndpoint ==
    \/ TextEndpointReject \/ TextEndpointAccept
    \/ TranslateLinesElement \/ TranslateLinesReturn
    \/ TextEndpointRespond

NextHandlers ==
    \/ TextEndpoint
    \/ \E j \in Slots : Submit(j)

SpecHandlers == InitHandlers /\ [][NextHandlers]_vars

\* C18: a text request whose text is missing or empty is answered with an
\* error and no engine call; a submission whose file is missing or unnamed is
\* rejected with no job in the table, no temporary file and no worker.
C18_RejectedBeforeWork ==
    /\ (/\ Returned("translate_text_endpoint")
        /\ call[1].body.text \in {None, Some(<<>>)}) =>
            /\ ret[1].code = 400
            /\ log = <<>>
    /\ \A j \in Slots :
          filename[j] \in {NoFile, ""} /\ rpc[j] # "idle" =>
              /\ rpc[j] = "rejected"
              /\ task_id[j] = 0 /\ pdf_path[j] = 0
              /\ wpc[j] = "none"

\* C20: a worker is launched once per accepted submission, for the id that
\* submission generated and no other submission has; a step of a worker
\* leaves the record of every other job as it is, and a launched worker keeps
\* its id.
C20_OwnRecordOnly ==
    [][ /\ \A j \in Slots :
             Worker(j) =>
                 \A id \in DOMAIN tasks :
                     id # task_id[j] => id \in DOMAIN tasks' /\ tasks'[id] = tasks[id]
        /\ \A j \in Slots :
             (wpc[j] = "none" /\ wpc'[j] # "none") =>
                 /\ SubmitStart(j)
                 /\ task_id[j] \in DOMAIN tasks
                 /\ \A k \in Slots \ {j} : task_id[k] # task_id[j]
        /\ \A j \in Slots :
             wpc[j] # "none" =>
                 /\ wpc'[j] # "none"
                 /\ task_id'[j] = task_id[j]
                 /\ \A k \in Slots \ {j} : task_id'[k] # task_id[j]
      ]_vars

\* Two workers at work, each on the record of its own job.
C20_Witness ==
    /\ \A j \in Slots : wpc[j] \notin {"none", "l58", "done"}
    /\ task_id[1] # task_id[2]
    /\ Status(task_id[1]) = "completed"
    /\ Status(task_id[2]) = "processing"

Finished(j) == Issued(j) /\ Status(task_id[j]) \in Terminal

MaxDetectLen == 10   \* longest text drawn from DetectAlphabet

\* A Latin letter, an Arabic letter and a blank.
DetectAlphabet == {"a", Meem, " "}

\* n times the character c
Repeat(c, n) == [i \in 1..n |-> c]

\* 10 Arabic letters among 20 non-space characters, with blanks around.
HalfArabic == <<" ">> \o Repeat(Meem, 10) \o <<" ">> \o Repeat("a", 10)

DetectTexts == SeqsUpTo(DetectAlphabet, MaxDetectLen) \cup {HalfArabic}

InitDetect ==
    /\ JobsInit
    /\ \E text \in DetectTexts : call = Some([fn |-> "detect_language", text |-> text])
    /\ cpc = "l63"
    /\ acc = <<>>
    /\ ret = None
    /\ log = <<>>

\* translate.py:63-70  detect_language(text) runs and returns.
DetectLanguageCall ==
    /\ cpc = "l63"
    /\ call[1].fn = "detect_language"
    /\ ret' = Some(detect_language(call[1].text))
    /\ cpc' = "returned"
    /\ UNCHANGED <<call, acc, log>>
    /\ JobsUnchanged

NextDetect == DetectLanguageCall

SpecDetect == InitDetect /\ [][NextDetect]_vars

\* The number of characters of text that are in S.
RECURSIVE CountIn(_, _)
CountIn(text, S) ==
    IF text = <<>> THEN 0
    ELSE (IF Head(text) \in S THEN 1 ELSE 0) + CountIn(Tail(text), S)

\* C21: detect_language returns "ar" exactly when 10 times the number of
\* Arabic characters is more than 3 times the number of non-whitespace
\* characters, and "en" otherwise: for a ratio of exactly 0.3 and for a text
\* with no non-whitespace character as well.
C21_ArabicAboveThreshold ==
    Returned("detect_language") =>
        LET arabic == CountIn(call[1].text, {Meem})
            total == Len(call[1].text) - CountIn(call[1].text, {" "})
        IN  /\ ret[1] \in {"ar", "en"}
            /\ ret[1] = "ar" <=> 10 * arabic > 3 * total
            /\ total = 0 => ret[1] = "en"
            /\ 10 * arabic = 3 * total => ret[1] = "en"

\* 3 Arabic letters among 10 non-space characters: a ratio of exactly 0.3.
C21_Witness ==
    /\ Returned("detect_language")
    /\ call[1].text = Repeat(Meem, 3) \o Repeat("a", 7)
    /\ ret[1] = "en"

\* C22: the output file a completed job names in its result holds that job's
\* translated lines (joined with line breaks), whatever other jobs do.
C22_ArtifactKept ==
    \A id \in DOMAIN tasks :
        "result" \in DOMAIN tasks[id] =>
            /\ tasks[id].result.output_file \in DOMAIN output_files
            /\ output_files[tasks[id].result.output_file] =
                   JoinNewline(tasks[id].result.translated_lines)

====
